---- MODULE Spec2Model ----
(***************************************************************************)
(* A model of load_data.py of the laughter-detection repository: the       *)
(* lhotse manifest provider (create_manifest), the dataframe-driven        *)
(* segment builder and the feature extraction / cache loop                 *)
(* (compute_features), and the training dataloader (create_dataloader).    *)
(*                                                                         *)
(* The file system is a function from paths to contents.  Paths are        *)
(* sequences of components (os.path.join appends a component).  Times are  *)
(* integers in tenths of a second.  Strings that the code takes apart      *)
(* (audio_path) are sequences of tokens, so that str.split is computed.    *)
(***************************************************************************)
EXTENDS Integers, Sequences, FiniteSets, TLC

VARIABLES
    FORCE_MANIFEST_RELOAD,    \* load_data.py:14, fixed for a whole behaviour
    FORCE_FEATURE_RECOMPUTE,  \* load_data.py:15, fixed for a whole behaviour
    fs,            \* the file system: path -> content
    pc,            \* position of the running call
    err,           \* the exception that ended the call, or NoErr
    icsi,          \* create_manifest's result: split -> recordings/supervisions
    prepared,      \* prepare_icsi was invoked by the current create_manifest
    dfs,           \* the dataframes read from data_dfs/{split}_df.csv
    cursor,        \* index of the split a loop of compute_features is at
    cutset_dict,   \* compute_features' cutset_dict: split -> sequence of cuts
    feat_log,      \* per split of this run: what the feature loop tested/read/wrote
    prev,          \* how the previous run of compute_features ended
    loader         \* the last create_dataloader call and its outcome

vars == <<FORCE_MANIFEST_RELOAD, FORCE_FEATURE_RECOMPUTE, fs, pc, err, icsi,
          prepared, dfs, cursor, cutset_dict, feat_log, prev, loader>>

(***************************************************************************)
(* Bounds of the model.                                                    *)
(***************************************************************************)
\* longest dataframe drawn for the segment builder
MaxRows == 2

(***************************************************************************)
(* Module-level configuration, load_data.py:13-41.                         *)
(***************************************************************************)
DEBUG == FALSE

SPLITS == <<"train", "dev", "test">>

SplitSet == {SPLITS[i] : i \in 1..Len(SPLITS)}

\* os.path.join(dir, name)
PathJoin(dir, name) == dir \o <<name>>

data_dir == <<"data", "icsi">>

lhotse_dir == PathJoin(data_dir, IF DEBUG THEN "test" ELSE "lhotse")

manifest_dir == PathJoin(lhotse_dir, "manifests")

feats_path == PathJoin(lhotse_dir, "feats")

cuts_file == PathJoin(lhotse_dir, IF DEBUG THEN "debug_cuts.jsonl" ELSE "cuts_with_feats.jsonl")

cutset_dir == PathJoin(lhotse_dir, "cutsets")

(***************************************************************************)
(* The files the code names.                                               *)
(***************************************************************************)
RecordingsFile(split) == PathJoin(manifest_dir, "recordings_" \o split \o ".jsonl")

SupervisionsFile(split) == PathJoin(manifest_dir, "supervisions_" \o split \o ".jsonl")

PickleFile == PathJoin(cutset_dir, "cutset_dict_without_feats.pkl")

\* f'{split}_cutset_with_feats.jsonl'
CutsWithFeatsName(split) == split \o "_cutset_with_feats.jsonl"

\* the path CutSet.from_jsonl is given on the cache-hit branch: the bare file
\* name, which the process resolves against its working directory
LoadedCutsPath(split) == <<CutsWithFeatsName(split)>>

\* the path cuts.to_jsonl is given after a fresh computation
StoredCutsPath(split) == PathJoin(cutset_dir, CutsWithFeatsName(split))

ManifestFiles ==
    {RecordingsFile(s) : s \in SplitSet} \cup {SupervisionsFile(s) : s \in SplitSet}

Paths ==
    {manifest_dir, cutset_dir, cuts_file, PickleFile} \cup ManifestFiles
      \cup {LoadedCutsPath(s) : s \in SplitSet}
      \cup {StoredCutsPath(s) : s \in SplitSet}

(***************************************************************************)
(* File contents and exceptions.                                           *)
(***************************************************************************)
NoFile == [kind |-> "absent"]

Dir == [kind |-> "dir"]

Malformed == [kind |-> "malformed"]

\* what opening path p finds
Content(f, p) == IF p \in DOMAIN f THEN f[p] ELSE NoFile

Exists(f, p) == Content(f, p) # NoFile

\* os.path.isdir(p), os.path.isfile(p)
IsDir(f, p) == Content(f, p) = Dir

IsFile(f, p) == Exists(f, p) /\ ~IsDir(f, p)

NoErr == [type |-> "none", raised |-> "none", split |-> "none"]

Raise(type, where, split) == [type |-> type, raised |-> where, split |-> split]

(***************************************************************************)
(* The corpus: what prepare_icsi derives from the raw audio and            *)
(* transcripts, and what it writes into the manifest directory.            *)
(***************************************************************************)
Rec(id, dur, nch) == [id |-> id, duration |-> dur, num_channels |-> nch]

IcsiCorpus ==
    [s \in SplitSet |->
        CASE s = "train" -> [recordings |-> {Rec("Bmr001", 20, 2)}, supervisions |-> {"Bmr001-0"}]
          [] s = "dev"   -> [recordings |-> {Rec("Bed002", 20, 1)}, supervisions |-> {"Bed002-0"}]
          [] s = "test"  -> [recordings |-> {Rec("Bro003", 20, 1)}, supervisions |-> {"Bro003-0"}]]

EmptyIcsi == [s \in SplitSet |-> [recordings |-> {}, supervisions |-> {}]]

RecordingsJsonl(split) == [kind |-> "recordings", items |-> IcsiCorpus[split].recordings]

SupervisionsJsonl(split) == [kind |-> "supervisions", items |-> IcsiCorpus[split].supervisions]

\* chan_idx_map.pkl: meeting-id -> (channel-name -> channel-index)
chan_idx_map ==
    [m \in {"Bmr001", "Bed002", "Bro003"} |->
        CASE m = "Bmr001" -> [c \in {"chan0", "chan1", "chanB"} |->
                                 CASE c = "chan0" -> 0 [] c = "chan1" -> 1 [] c = "chanB" -> 5]
          [] m = "Bed002" -> [c \in {"chan0"} |-> 0]
          [] m = "Bro003" -> [c \in {"chan0"} |-> 0]]

(***************************************************************************)
(* The segment builder: the body of the row loop of compute_features.      *)
(***************************************************************************)
\* str.split(sep) on a token sequence: the segments between separators
RECURSIVE StrSplit(_, _)
StrSplit(toks, sep) ==
    IF toks = <<>> THEN << <<>> >>
    ELSE LET rest == StrSplit(Tail(toks), sep)
         IN  IF Head(toks) = sep
             THEN << <<>> >> \o rest
             ELSE << <<Head(toks)>> \o Head(rest) >> \o Tail(rest)

\* the string a token sequence spells
RECURSIVE StrOf(_)
StrOf(toks) == IF toks = <<>> THEN "" ELSE Head(toks) \o StrOf(Tail(toks))

\* recordings[meeting_id] of a RecordingSet
HasRecording(recs, meeting_id) == \E r \in recs : r.id = meeting_id

RecordingOf(recs, meeting_id) == CHOOSE r \in recs : r.id = meeting_id

\* mutant: every split's rows are looked up in the train recordings
RecordingSplitAlwaysTrain(split) == "train"

\* the split whose RecordingSet the row loop looks the meeting up in
RecordingSplit(split) == IF DEBUG THEN "train" ELSE split

\* mutant: the cut starts at the row's start column, not at sub_start
CutStartFromRowStart(row) == row.start

\* the start offset and the duration a cut and its supervision are given
CutStart(row) == row.sub_start

CutDuration(row) == row.sub_duration

\* one iteration of the row loop (ind is the dataframe index, from 0):
\* the cut appended to cut_list, or the exception raised
BuildRow(split, ind, row, manifest) ==
    LET parts == StrSplit(row.audio_path, "/")
    IN  IF Len(parts) < 2
        THEN [err |-> Raise("IndexError", "audio_path", split), cut |-> <<>>]
        ELSE
        LET meeting_id == StrOf(parts[1])
            channel == StrOf(StrSplit(parts[2], ".")[1])
        IN  IF meeting_id \notin DOMAIN chan_idx_map
               \/ channel \notin DOMAIN chan_idx_map[meeting_id]
            THEN [err |-> Raise("KeyError", "chan_idx_map", split), cut |-> <<>>]
            ELSE
            LET chan_id == chan_idx_map[meeting_id][channel]
                recs == manifest[RecordingSplit(split)].recordings
            IN  IF ~HasRecording(recs, meeting_id)
                THEN [err |-> Raise("KeyError", "recordings", split), cut |-> <<>>]
                ELSE
                LET rec == RecordingOf(recs, meeting_id)
                    sup == [id |-> <<"sup", split, ind>>,
                            recording_id |-> rec.id,
                            start |-> CutStart(row),
                            duration |-> CutDuration(row),
                            channel |-> chan_id,
                            custom |-> [is_laugh |-> row.label]]
                IN  [err |-> NoErr,
                     cut |-> << [id |-> <<split, ind>>,
                                 start |-> CutStart(row),
                                 duration |-> CutDuration(row),
                                 recording |-> rec,
                                 channel |-> chan_id,
                                 supervisions |-> <<sup>>,
                                 features |-> <<>>] >>]

\* mutant: a row that raises is skipped and the loop goes on
RECURSIVE BuildFromSkippingRows(_, _, _, _, _)
BuildFromSkippingRows(split, df, manifest, i, cut_list) ==
    IF i > Len(df) THEN [err |-> NoErr, cuts |-> cut_list]
    ELSE LET r == BuildRow(split, i - 1, df[i], manifest)
         IN  BuildFromSkippingRows(split, df, manifest, i + 1,
                                   IF r.err # NoErr THEN cut_list ELSE cut_list \o r.cut)

\* the row loop from row i on, cut_list holding the cuts made so far: the
\* first exception ends the loop and nothing of cut_list survives it
RECURSIVE BuildFrom(_, _, _, _, _)
BuildFrom(split, df, manifest, i, cut_list) ==
    IF i > Len(df) THEN [err |-> NoErr, cuts |-> cut_list]
    ELSE LET r == BuildRow(split, i - 1, df[i], manifest)
         IN  IF r.err # NoErr THEN [err |-> r.err, cuts |-> <<>>]
             ELSE BuildFrom(split, df, manifest, i + 1, cut_list \o r.cut)

BuildCuts(split, df, manifest) == BuildFrom(split, df, manifest, 1, <<>>)

(***************************************************************************)
(* Dataframe rows.                                                         *)
(***************************************************************************)
Row(meeting, chan, st, du, sst, sdu, lab) ==
    [start |-> st, duration |-> du, sub_start |-> sst, sub_duration |-> sdu,
     audio_path |-> <<meeting, "/", chan, ".", "sph">>, label |-> lab]

\* the meeting each split's recordings hold
MeetingOf(split) ==
    CASE split = "train" -> "Bmr001" [] split = "dev" -> "Bed002" [] split = "test" -> "Bro003"

\* rows the segment builder is exercised on
RowPool ==
    { Row("Bmr001", "chan0", 0, 30, 10, 5, 1),   \* a laugh excerpt of Bmr001
      Row("Bmr001", "chan1", 0, 30, 2, 8, 0),    \* a speech excerpt of Bmr001
      Row("Bed002", "chan0", 1, 9, 3, 4, 1),     \* a meeting of the dev split
      Row("Bro003", "chan0", 5, 9, 6, 7, 0),     \* a meeting of the test split
      Row("Bmr001", "chan9", 0, 30, 10, 5, 1),   \* channel not in chan_idx_map
      Row("Bzz009", "chan0", 0, 30, 10, 5, 0),   \* meeting in no map and no manifest
      Row("Bmr001", "chan0", 0, 30, 18, 5, 1),   \* ends after the recording does
      Row("Bmr001", "chanB", 0, 30, 1, 2, 0) }   \* channel index 5 of 2 channels

RECURSIVE SeqsUpTo(_, _)
SeqsUpTo(S, n) ==
    IF n = 0 THEN {<<>>}
    ELSE LET shorter == SeqsUpTo(S, n - 1)
         IN  shorter \cup {Append(q, x) : q \in {t \in shorter : Len(t) = n - 1}, x \in S}

Tables == SeqsUpTo(RowPool, MaxRows)

(***************************************************************************)
(* The state a fresh checkout is in, and the states in between runs.       *)
(***************************************************************************)
NoRun ==
    [status |-> "none", err |-> NoErr, pickle |-> NoFile,
     stored |-> [s \in SplitSet |-> NoFile]]

EmptyDict == [s \in {} |-> <<>>]

NoLoader == [split |-> "none", dir |-> <<>>, reads |-> {}, built |-> FALSE, err |-> NoErr]

FreshFs == [p \in Paths |-> NoFile]

\* the manifest directory as prepare_icsi leaves it
WithManifests(f) ==
    [p \in Paths |->
        IF p = manifest_dir THEN Dir
        ELSE IF \E s \in SplitSet : p = RecordingsFile(s)
             THEN RecordingsJsonl(CHOOSE s \in SplitSet : p = RecordingsFile(s))
        ELSE IF \E s \in SplitSet : p = SupervisionsFile(s)
             THEN SupervisionsJsonl(CHOOSE s \in SplitSet : p = SupervisionsFile(s))
        ELSE f[p]]

(***************************************************************************)
(* compute_features, lines 103-124: one split of the segment-building loop.*)
(***************************************************************************)
DfKeys == IF DEBUG THEN <<"train">> ELSE SPLITS

\* mutant: a split found in the pickle of an earlier run is taken from it
BuildSplitReusingPickle ==
    /\ pc = "build"
    /\ cursor \in 1..Len(DfKeys)
    /\ LET split == DfKeys[cursor]
           res == BuildCuts(split, dfs[split], icsi)
           old == Content(fs, PickleFile)
       IN  IF old.kind = "pickle" /\ split \in DOMAIN old.dict
           THEN /\ cutset_dict' = (split :> old.dict[split]) @@ cutset_dict
                /\ err' = NoErr
                /\ IF cursor = Len(DfKeys)
                   THEN pc' = "dump" /\ cursor' = 1
                   ELSE pc' = "build" /\ cursor' = cursor + 1
           ELSE IF res.err # NoErr
           THEN /\ pc' = "failed"
                /\ err' = res.err
                /\ UNCHANGED <<cursor, cutset_dict>>
           ELSE /\ cutset_dict' = (split :> res.cuts) @@ cutset_dict
                /\ err' = NoErr
                /\ IF cursor = Len(DfKeys)
                   THEN pc' = "dump" /\ cursor' = 1
                   ELSE pc' = "build" /\ cursor' = cursor + 1
    /\ UNCHANGED <<FORCE_MANIFEST_RELOAD, FORCE_FEATURE_RECOMPUTE, fs, icsi,
                   prepared, dfs, feat_log, prev, loader>>

BuildSplit ==
    /\ pc = "build"
    /\ cursor \in 1..Len(DfKeys)
    /\ LET split == DfKeys[cursor]
           res == BuildCuts(split, dfs[split], icsi)
       IN  IF res.err # NoErr
           THEN /\ pc' = "failed"
                /\ err' = res.err
                /\ UNCHANGED <<cursor, cutset_dict>>
           ELSE /\ cutset_dict' = (split :> res.cuts) @@ cutset_dict
                /\ err' = NoErr
                /\ IF cursor = Len(DfKeys)
                   THEN pc' = "dump" /\ cursor' = 1
                   ELSE pc' = "build" /\ cursor' = cursor + 1
    /\ UNCHANGED <<FORCE_MANIFEST_RELOAD, FORCE_FEATURE_RECOMPUTE, fs, icsi,
                   prepared, dfs, feat_log, prev, loader>>

(***************************************************************************)
(* create_manifest, lines 44-68.                                           *)
(***************************************************************************)
\* mutant: the force flag is not looked at
UseManifestOnDiskIgnoringForce == IsDir(fs, manifest_dir)

\* line 54: the manifests are loaded from disk, not prepared
UseManifestOnDisk == IsDir(fs, manifest_dir) /\ ~FORCE_MANIFEST_RELOAD

\* the files the loading loop opens, in the order it opens them
ManifestReads ==
    << [path |-> RecordingsFile("train"), kind |-> "recordings", split |-> "train"],
       [path |-> SupervisionsFile("train"), kind |-> "supervisions", split |-> "train"],
       [path |-> RecordingsFile("dev"), kind |-> "recordings", split |-> "dev"],
       [path |-> SupervisionsFile("dev"), kind |-> "supervisions", split |-> "dev"],
       [path |-> RecordingsFile("test"), kind |-> "recordings", split |-> "test"],
       [path |-> SupervisionsFile("test"), kind |-> "supervisions", split |-> "test"] >>

\* from_jsonl succeeds on a file of the expected kind
Loads(f, rd) == Content(f, rd.path).kind = rd.kind

\* the exception from_jsonl raises on a file that does not load
LoadError(f, rd) ==
    Raise(IF Exists(f, rd.path) THEN "JSONDecodeError" ELSE "FileNotFoundError",
          "from_jsonl", rd.split)

CreateManifest ==
    /\ pc = "manifest"
    /\ IF UseManifestOnDisk
       THEN /\ prepared' = FALSE
            /\ fs' = fs
            /\ IF \A i \in 1..Len(ManifestReads) : Loads(fs, ManifestReads[i])
               THEN /\ icsi' = [s \in SplitSet |->
                                  [recordings |-> fs[RecordingsFile(s)].items,
                                   supervisions |-> fs[SupervisionsFile(s)].items]]
                    /\ pc' = "read"
                    /\ err' = NoErr
               ELSE LET bad == CHOOSE i \in 1..Len(ManifestReads) :
                                 /\ ~Loads(fs, ManifestReads[i])
                                 /\ \A j \in 1..(i - 1) : Loads(fs, ManifestReads[j])
                    IN  /\ pc' = "failed"
                        /\ err' = LoadError(fs, ManifestReads[bad])
                        /\ icsi' = icsi
       ELSE \* prepare_icsi(audio_dir, transcripts_dir, output_dir=manifest_dir)
            /\ prepared' = TRUE
            /\ fs' = WithManifests(fs)
            /\ icsi' = IcsiCorpus
            /\ pc' = "read"
            /\ err' = NoErr
    /\ UNCHANGED <<FORCE_MANIFEST_RELOAD, FORCE_FEATURE_RECOMPUTE, dfs, cursor,
                   cutset_dict, feat_log, prev, loader>>

(***************************************************************************)
(* compute_features, lines 71-101: set-up, manifests, tables.              *)
(***************************************************************************)
EmptyDfs == [s \in {DfKeys[i] : i \in 1..Len(DfKeys)} |-> <<>>]

\* the dataframes a run may find in data_dfs/: every split's usual table,
\* or one split's table replaced by another one
UsualTable(s) ==
    << Row(MeetingOf(s), "chan0", 0, 30, 10, 5, 1),
       Row(MeetingOf(s), "chan0", 0, 30, 2, 8, 0) >>

OtherTables(s) ==
    CASE s = "train" ->
           { << Row("Bmr001", "chan1", 0, 30, 4, 6, 1) >>,
             << Row("Bed002", "chan0", 0, 30, 3, 4, 1),
                Row("Bmr001", "chan9", 0, 30, 10, 5, 1) >> }
      [] s = "dev" ->
           { << Row("Bed002", "chan0", 0, 30, 10, 5, 1),
                Row("Bed002", "chan9", 0, 30, 2, 8, 0) >> }
      [] s = "test" -> { }

DfsPool ==
    {[s \in SplitSet |-> UsualTable(s)]}
      \cup {[s \in SplitSet |-> IF s = x THEN t ELSE UsualTable(s)] :
               <<x, t>> \in UNION {{<<y, u>> : u \in OtherTables(y)} : y \in SplitSet}}

\* a new run of the module's entry point: lines 74 (mkdir -p cutset_dir)
StartRun ==
    /\ pc \in {"idle", "done", "failed"}
    /\ fs' = [fs EXCEPT ![cutset_dir] = Dir]
    /\ pc' = "manifest"
    /\ err' = NoErr
    /\ icsi' = EmptyIcsi
    /\ prepared' = FALSE
    /\ dfs' = EmptyDfs
    /\ cursor' = 1
    /\ cutset_dict' = EmptyDict
    /\ feat_log' = EmptyDict
    /\ prev' = [status |-> IF pc = "idle" THEN "none" ELSE pc,
                err |-> err,
                pickle |-> fs[PickleFile],
                stored |-> [s \in SplitSet |-> fs[StoredCutsPath(s)]]]
    /\ UNCHANGED <<FORCE_MANIFEST_RELOAD, FORCE_FEATURE_RECOMPUTE, loader>>

\* lines 82-94: chan_idx_map.pkl and the per-split csv files are read
ReadTables ==
    /\ pc = "read"
    /\ dfs' \in DfsPool
    /\ pc' = "build"
    /\ cursor' = 1
    /\ UNCHANGED <<FORCE_MANIFEST_RELOAD, FORCE_FEATURE_RECOMPUTE, fs, err, icsi,
                   prepared, cutset_dict, feat_log, prev, loader>>

\* lines 126-128: the cutsets without features are pickled
DumpPickle ==
    /\ pc = "dump"
    /\ fs' = [fs EXCEPT ![PickleFile] = [kind |-> "pickle", dict |-> cutset_dict]]
    /\ pc' = "feats"
    /\ cursor' = 1
    /\ UNCHANGED <<FORCE_MANIFEST_RELOAD, FORCE_FEATURE_RECOMPUTE, err, icsi,
                   prepared, dfs, cutset_dict, feat_log, prev, loader>>

(***************************************************************************)
(* compute_features, lines 130-152: the feature loop, one split a step.    *)
(***************************************************************************)
\* the file whose existence decides between loading and computing (line 138)
CacheTestPath(split) == cuts_file

\* line 138
FeaturesOnDisk(split) == IsFile(fs, CacheTestPath(split)) /\ ~FORCE_FEATURE_RECOMPUTE

\* the cut with the reference to its stored feature matrix attached
WithFeatures(cut) == [cut EXCEPT !.features = <<feats_path, cut.id>>]

CutIds(cuts) == {cuts[i].id : i \in 1..Len(cuts)}

\* every order cuts.shuffle() may leave the cuts in
Shuffles(cuts) ==
    LET n == Len(cuts)
        perms == {p \in [1..n -> 1..n] : \A i, j \in 1..n : p[i] = p[j] => i = j}
    IN  {[i \in 1..n |-> cuts[p[i]]] : p \in perms}

\* the loop moves on to the next split, or the function returns
NextSplit ==
    IF cursor = Len(DfKeys)
    THEN pc' = "done" /\ cursor' = cursor
    ELSE pc' = "feats" /\ cursor' = cursor + 1

LogEntry(branch, reads, writes, submitted, split) ==
    (split :> [branch |-> branch, tested |-> CacheTestPath(split), read |-> reads,
               wrote |-> writes, submitted |-> submitted]) @@ feat_log

\* lines 138-140: the cache-hit branch
LoadFeatures ==
    /\ pc = "feats"
    /\ LET split == DfKeys[cursor]
           p == LoadedCutsPath(split)
       IN  /\ FeaturesOnDisk(split)
           /\ feat_log' = LogEntry("load", {p}, {}, {}, split)
           /\ IF Content(fs, p).kind = "cuts"
              THEN err' = NoErr /\ NextSplit
              ELSE /\ pc' = "failed"
                   /\ cursor' = cursor
                   /\ err' = Raise(IF Exists(fs, p) THEN "JSONDecodeError"
                                   ELSE "FileNotFoundError", "from_jsonl", split)
    /\ UNCHANGED <<FORCE_MANIFEST_RELOAD, FORCE_FEATURE_RECOMPUTE, fs, icsi,
                   prepared, dfs, cutset_dict, prev, loader>>

\* lines 141-152: features computed for every cut, shuffled, stored
ComputeFeatures ==
    /\ pc = "feats"
    /\ LET split == DfKeys[cursor]
           cutset == cutset_dict[split]
           with_feats == [i \in 1..Len(cutset) |-> WithFeatures(cutset[i])]
       IN  /\ ~FeaturesOnDisk(split)
           /\ \E cuts \in Shuffles(with_feats) :
                 fs' = [fs EXCEPT ![StoredCutsPath(split)] =
                                      [kind |-> "cuts", cuts |-> cuts]]
           /\ feat_log' = LogEntry("compute", {}, {StoredCutsPath(split)},
                                   CutIds(cutset), split)
    /\ err' = NoErr
    /\ NextSplit
    /\ UNCHANGED <<FORCE_MANIFEST_RELOAD, FORCE_FEATURE_RECOMPUTE, icsi,
                   prepared, dfs, cutset_dict, prev, loader>>

\* mutant: the cuts extracted before the failure are stored as the split's cache
ComputeFeaturesFailsAfterWrite ==
    /\ pc = "feats"
    /\ LET split == DfKeys[cursor]
           cutset == cutset_dict[split]
       IN  /\ ~FeaturesOnDisk(split)
           /\ \E k \in 1..Len(cutset) :
                 /\ err' = Raise("FeatureExtractionError", "compute_and_store_features", split)
                 /\ fs' = [fs EXCEPT ![StoredCutsPath(split)] =
                              [kind |-> "cuts",
                               cuts |-> [i \in 1..(k - 1) |-> WithFeatures(cutset[i])]]]
           /\ feat_log' = LogEntry("compute", {}, {StoredCutsPath(split)}, CutIds(cutset), split)
    /\ pc' = "failed"
    /\ UNCHANGED <<FORCE_MANIFEST_RELOAD, FORCE_FEATURE_RECOMPUTE, icsi,
                   prepared, dfs, cursor, cutset_dict, prev, loader>>

\* lines 142-147: the extraction of some cut's features raises, and the
\* exception leaves compute_features before line 150
ComputeFeaturesFails ==
    /\ pc = "feats"
    /\ LET split == DfKeys[cursor]
           cutset == cutset_dict[split]
       IN  /\ ~FeaturesOnDisk(split)
           /\ \E k \in 1..Len(cutset) :
                 err' = Raise("FeatureExtractionError", "compute_and_store_features", split)
           /\ feat_log' = LogEntry("compute", {}, {}, CutIds(cutset), split)
    /\ pc' = "failed"
    /\ UNCHANGED <<FORCE_MANIFEST_RELOAD, FORCE_FEATURE_RECOMPUTE, fs, icsi,
                   prepared, dfs, cursor, cutset_dict, prev, loader>>

(***************************************************************************)
(* The pipeline: runs of compute_features, one after the other, on the     *)
(* file system the earlier runs left.                                      *)
(***************************************************************************)
\* a file at cuts_file, which no code of the module writes
ForeignCuts == [kind |-> "cuts", cuts |-> <<>>]

\* the cutset files found in the working directory before the first run
InitialFs ==
    { FreshFs,
      [FreshFs EXCEPT ![cuts_file] = ForeignCuts],
      [FreshFs EXCEPT ![cuts_file] = ForeignCuts,
                      ![LoadedCutsPath("train")] = ForeignCuts],
      [p \in Paths |-> IF p = cuts_file \/ \E s \in SplitSet : p = LoadedCutsPath(s)
                       THEN ForeignCuts ELSE NoFile] }

Init ==
    /\ FORCE_MANIFEST_RELOAD \in BOOLEAN
    /\ FORCE_FEATURE_RECOMPUTE \in BOOLEAN
    /\ \E f \in InitialFs : fs \in {f, WithManifests(f)}
    /\ pc = "idle"
    /\ err = NoErr
    /\ icsi = EmptyIcsi
    /\ prepared = FALSE
    /\ dfs = EmptyDfs
    /\ cursor = 1
    /\ cutset_dict = EmptyDict
    /\ feat_log = EmptyDict
    /\ prev = NoRun
    /\ loader = NoLoader

Next ==
    \/ StartRun
    \/ CreateManifest
    \/ ReadTables
    \/ BuildSplit
    \/ DumpPickle
    \/ LoadFeatures
    \/ ComputeFeatures
    \/ ComputeFeaturesFails

Spec == Init /\ [][Next]_vars

(***************************************************************************)
(* The segment builder on its own: one split's dataframe drawn from        *)
(* Tables, the manifests loaded, the row loop about to start.              *)
(***************************************************************************)
InitBuild ==
    /\ FORCE_MANIFEST_RELOAD = FALSE
    /\ FORCE_FEATURE_RECOMPUTE = FALSE
    /\ fs = [WithManifests(FreshFs) EXCEPT ![cutset_dir] = Dir]
    /\ pc = "build"
    /\ err = NoErr
    /\ icsi = IcsiCorpus
    /\ prepared = FALSE
    /\ \E s \in SplitSet, t \in Tables :
          dfs = [x \in SplitSet |-> IF x = s THEN t ELSE <<>>]
    /\ cursor = 1
    /\ cutset_dict = EmptyDict
    /\ feat_log = EmptyDict
    /\ prev = NoRun
    /\ loader = NoLoader

SpecBuild == InitBuild /\ [][BuildSplit]_vars

(***************************************************************************)
(* create_manifest on its own: the manifest directory absent, or present   *)
(* with each of its six files absent, malformed or as prepare_icsi wrote   *)
(* it.                                                                     *)
(***************************************************************************)
ManifestDirStates ==
    {[FreshFs EXCEPT ![cutset_dir] = Dir]}
      \cup { [p \in Paths |->
                 IF p = manifest_dir \/ p = cutset_dir THEN Dir
                 ELSE IF p \in ManifestFiles
                      THEN CASE st[p] = "absent" -> NoFile
                             [] st[p] = "malformed" -> Malformed
                             [] st[p] = "written" -> WithManifests(FreshFs)[p]
                      ELSE NoFile] :
               st \in [ManifestFiles -> {"absent", "malformed", "written"}] }

InitManifest ==
    /\ FORCE_MANIFEST_RELOAD \in BOOLEAN
    /\ FORCE_FEATURE_RECOMPUTE = FALSE
    /\ fs \in ManifestDirStates
    /\ pc = "manifest"
    /\ err = NoErr
    /\ icsi = EmptyIcsi
    /\ prepared = FALSE
    /\ dfs = EmptyDfs
    /\ cursor = 1
    /\ cutset_dict = EmptyDict
    /\ feat_log = EmptyDict
    /\ prev = NoRun
    /\ loader = NoLoader

SpecManifest == InitManifest /\ [][CreateManifest]_vars

(***************************************************************************)
(* create_dataloader, lines 155-173.                                       *)
(***************************************************************************)
\* mutant: the recipe's other name of the dev split is let through
DataloaderSplitsWithVal == {"train", "dev", "test", "val"}

\* line 161
DataloaderSplits == {"train", "dev", "test"}

\* lines 166-167: the cutset file create_dataloader opens
DataloaderCutsPath(dir, split) == PathJoin(dir, split \o "_cutset_with_feats.jsonl")

CreateDataloader(dir, split) ==
    /\ loader' =
         IF split \notin DataloaderSplits
         THEN [split |-> split, dir |-> dir, reads |-> {}, built |-> FALSE,
               err |-> Raise("ValueError", "create_dataloader", split)]
         ELSE LET p == DataloaderCutsPath(dir, split)
              IN  IF Content(fs, p).kind = "cuts"
                  THEN [split |-> split, dir |-> dir, reads |-> {p}, built |-> TRUE,
                        err |-> NoErr]
                  ELSE [split |-> split, dir |-> dir, reads |-> {p}, built |-> FALSE,
                        err |-> Raise(IF Exists(fs, p) THEN "JSONDecodeError"
                                      ELSE "FileNotFoundError", "from_jsonl", split)]
    /\ UNCHANGED <<FORCE_MANIFEST_RELOAD, FORCE_FEATURE_RECOMPUTE, fs, pc, err, icsi,
                   prepared, dfs, cursor, cutset_dict, feat_log, prev>>

\* the arguments create_dataloader is called with
SplitArgs == DataloaderSplits \cup {"val", "validation"}

DirArgs == {cutset_dir, <<>>}

\* a cutset file as a run of compute_features stores it
StoredCutset(split) ==
    LET cuts == BuildCuts(split, UsualTable(split), IcsiCorpus).cuts
    IN  [kind |-> "cuts", cuts |-> [i \in 1..Len(cuts) |-> WithFeatures(cuts[i])]]

CutsetFiles ==
    {LoadedCutsPath(s) : s \in SplitSet} \cup {StoredCutsPath(s) : s \in SplitSet}

CutsetSplit(p) == CHOOSE s \in SplitSet : p \in {LoadedCutsPath(s), StoredCutsPath(s)}

InitLoader ==
    /\ FORCE_MANIFEST_RELOAD = FALSE
    /\ FORCE_FEATURE_RECOMPUTE = FALSE
    /\ \E st \in [CutsetFiles -> {"absent", "malformed", "stored"}] :
          fs = [p \in Paths |->
                   IF p = cutset_dir THEN Dir
                   ELSE IF p \in CutsetFiles
                        THEN CASE st[p] = "absent" -> NoFile
                               [] st[p] = "malformed" -> Malformed
                               [] st[p] = "stored" -> StoredCutset(CutsetSplit(p))
                        ELSE NoFile]
    /\ pc = "idle"
    /\ err = NoErr
    /\ icsi = EmptyIcsi
    /\ prepared = FALSE
    /\ dfs = EmptyDfs
    /\ cursor = 1
    /\ cutset_dict = EmptyDict
    /\ feat_log = EmptyDict
    /\ prev = NoRun
    /\ loader = NoLoader

SpecLoader ==
    InitLoader /\ [][\E dir \in DirArgs, split \in SplitArgs : CreateDataloader(dir, split)]_vars

(***************************************************************************)
(* Vocabulary of the properties.  It reads the tables and the manifests    *)
(* directly and uses none of the operators of the segment builder.         *)
(***************************************************************************)
\* the meeting and the channel a row of RowPool or of DfsPool names
RowMeeting(row) == row.audio_path[1]

RowChannel(row) == row.audio_path[3]

InChanMap(row) ==
    /\ RowMeeting(row) \in DOMAIN chan_idx_map
    /\ RowChannel(row) \in DOMAIN chan_idx_map[RowMeeting(row)]

InRecordings(split, row) == \E r \in icsi[split].recordings : r.id = RowMeeting(row)

ValidRow(split, row) == InChanMap(row) /\ InRecordings(split, row)

RowsOf(split) == {dfs[split][i] : i \in 1..Len(dfs[split])}

\* the spec's names of the two lookups that raise KeyError
UnknownChannelError(e) == e.type = "KeyError" /\ e.raised = "chan_idx_map"

UnknownRecordingError(e) == e.type = "KeyError" /\ e.raised = "recordings"

SplitIndex(split) == CHOOSE i \in 1..Len(DfKeys) : DfKeys[i] = split

\* the row loop of this split has ended, by its last row or by an exception
RowLoopOver(split) ==
    \/ split \in DOMAIN cutset_dict
    \/ pc = "failed" /\ err.raised \in {"chan_idx_map", "recordings", "audio_path"}
                     /\ err.split = split

\* segment building of this run has ended, in cutset_dict or in an exception
BuildingOver == pc \in {"dump", "feats", "done", "failed"}

\* the first row the row loops meet that one of the two lookups rejects
BadSplits == {s \in SplitSet : \E r \in RowsOf(s) : ~ValidRow(s, r)}

FirstBadSplit ==
    CHOOSE s \in BadSplits : \A x \in BadSplits : SplitIndex(s) <= SplitIndex(x)

FirstBadRow ==
    LET df == dfs[FirstBadSplit]
        k == CHOOSE i \in 1..Len(df) :
               /\ ~ValidRow(FirstBadSplit, df[i])
               /\ \A j \in 1..(i - 1) : ValidRow(FirstBadSplit, df[j])
    IN  df[k]

\* the exception is the one the first rejected row raises: the channel lookup
\* comes before the recording lookup
FailsAtFirstBadRow ==
    /\ pc = "failed"
    /\ err.split = FirstBadSplit
    /\ IF InChanMap(FirstBadRow) THEN UnknownRecordingError(err)
                                 ELSE UnknownChannelError(err)

\* this run has written neither the pickle nor this split's cutset file
NothingPersisted(split) ==
    /\ fs[PickleFile] = prev.pickle
    /\ fs[StoredCutsPath(split)] = prev.stored[split]

\* the previous run ended in a failed feature extraction
PrevFailedExtracting ==
    prev.status = "failed" /\ prev.err.type = "FeatureExtractionError"

(***************************************************************************)
(* C1: for a table of valid rows the row loop yields one cut per row, in   *)
(* row order, the i-th cut carrying the i-th row's sub_start and           *)
(* sub_duration and one supervision whose is_laugh is the row's label.     *)
(***************************************************************************)
C1_OneCutPerRow ==
    \A s \in SplitSet :
        ((\A r \in RowsOf(s) : ValidRow(s, r)) /\ RowLoopOver(s)) =>
            /\ s \in DOMAIN cutset_dict
            /\ Len(cutset_dict[s]) = Len(dfs[s])
            /\ \A i \in 1..Len(dfs[s]) :
                  LET cut == cutset_dict[s][i]
                      row == dfs[s][i]
                  IN  /\ cut.id = <<s, i - 1>>
                      /\ cut.start = row.sub_start
                      /\ cut.duration = row.sub_duration
                      /\ Len(cut.supervisions) = 1
                      /\ cut.supervisions[1].custom.is_laugh = row.label

C1_Witness ==
    \E s \in SplitSet :
        /\ s \in DOMAIN cutset_dict
        /\ Len(dfs[s]) >= 2
        /\ dfs[s][1].sub_start # dfs[s][2].sub_start
        /\ dfs[s][1].label # dfs[s][2].label
        /\ \A r \in RowsOf(s) : ValidRow(s, r)

(***************************************************************************)
(* C2: a run after a run that completed, with FORCE_FEATURE_RECOMPUTE      *)
(* false, recomputes no split's features and leaves every split's cutset   *)
(* file as the first run left it.                                          *)
(***************************************************************************)
C2_SecondRunRecomputesNothing ==
    (prev.status = "done" /\ ~FORCE_FEATURE_RECOMPUTE) =>
        /\ \A s \in DOMAIN feat_log : feat_log[s].branch # "compute"
        /\ \A s \in SplitSet : fs[StoredCutsPath(s)] = prev.stored[s]

(***************************************************************************)
(* C3: the file tested, the file loaded and the file written for a split   *)
(* are all cutsets/{split}_cutset_with_feats.jsonl, and the split is       *)
(* loaded exactly when that file was there and recompute is not forced.    *)
(***************************************************************************)
C3_OneCacheFilePerSplit ==
    \A s \in DOMAIN feat_log :
        LET own == PathJoin(cutset_dir, s \o "_cutset_with_feats.jsonl")
        IN  /\ feat_log[s].tested = own
            /\ feat_log[s].read \subseteq {own}
            /\ feat_log[s].wrote \subseteq {own}
            /\ feat_log[s].branch = "load" <=>
                  (prev.stored[s] # NoFile /\ ~FORCE_FEATURE_RECOMPUTE)

(***************************************************************************)
(* C4: a failed feature extraction ends the run with the split's cutset    *)
(* file as the run found it, and the next run, when it comes to that       *)
(* split, submits every cut of it to the extractor and loads no cache.     *)
(***************************************************************************)
C4_FailedSplitLeavesNoCache ==
    /\ (pc = "failed" /\ err.type = "FeatureExtractionError") =>
          /\ fs[StoredCutsPath(err.split)] = prev.stored[err.split]
          /\ feat_log[err.split].wrote = {}
    /\ (PrevFailedExtracting /\ prev.err.split \in DOMAIN feat_log) =>
          LET s == prev.err.split
          IN  /\ feat_log[s].branch = "compute"
              /\ feat_log[s].read = {}
              /\ feat_log[s].submitted = {<<s, i - 1>> : i \in 1..Len(dfs[s])}
              /\ pc # "failed" =>
                    /\ fs[StoredCutsPath(s)].kind = "cuts"
                    /\ Len(fs[StoredCutsPath(s)].cuts) = Len(dfs[s])
                    /\ \A i \in 1..Len(dfs[s]) :
                          fs[StoredCutsPath(s)].cuts[i].features # <<>>

C4_Witness ==
    /\ PrevFailedExtracting
    /\ prev.err.split \in DOMAIN feat_log
    /\ pc = "done"
    /\ prev.stored[prev.err.split] # NoFile

(***************************************************************************)
(* C5 as stated: a row absent from the channel map makes segment building  *)
(* fail with the unknown-channel error, and the run persists no cuts of    *)
(* that split.                                                             *)
(***************************************************************************)
C5_UnmappedRowRaisesUnknownChannel ==
    \A s \in SplitSet :
        ((\E r \in RowsOf(s) : ~InChanMap(r)) /\ BuildingOver) =>
            /\ pc = "failed"
            /\ UnknownChannelError(err)
            /\ s \notin DOMAIN cutset_dict
            /\ NothingPersisted(s)

(***************************************************************************)
(* C5 as amended: a row absent from the channel map makes segment building *)
(* fail with the exception of the first rejected row (the unknown-channel  *)
(* error when that row is absent from the channel map), and the run        *)
(* persists no cuts of that split.                                         *)
(***************************************************************************)
C5_UnmappedRowFailsTheRun ==
    \A s \in SplitSet :
        ((\E r \in RowsOf(s) : ~InChanMap(r)) /\ BuildingOver) =>
            /\ FailsAtFirstBadRow
            /\ s \notin DOMAIN cutset_dict
            /\ NothingPersisted(s)

C5_Witness ==
    /\ pc = "failed"
    /\ UnknownChannelError(err)
    /\ \E r \in RowsOf(err.split) : ~InChanMap(r)
    /\ DOMAIN cutset_dict # {}
    /\ prev.pickle # NoFile
    /\ prev.stored[err.split] # NoFile

(***************************************************************************)
(* C6 as stated: a row whose meeting is not in its split's recordings      *)
(* makes segment building fail with the unknown-recording error and yields *)
(* no cut, and every cut's recording is one of its own split's.            *)
(***************************************************************************)
CutsFromOwnSplit ==
    \A s \in DOMAIN cutset_dict :
        \A i \in 1..Len(cutset_dict[s]) :
            cutset_dict[s][i].recording \in icsi[s].recordings

C6_MissingRecordingRaisesUnknownRecording ==
    /\ \A s \in SplitSet :
          ((\E r \in RowsOf(s) : ~InRecordings(s, r)) /\ BuildingOver) =>
              /\ pc = "failed"
              /\ UnknownRecordingError(err)
              /\ s \notin DOMAIN cutset_dict
    /\ CutsFromOwnSplit

(***************************************************************************)
(* C6 as amended: such a row makes segment building fail and yields no     *)
(* cut; the exception is the first rejected row's, the unknown-recording   *)
(* error when the channel map resolves that row and the unknown-channel    *)
(* error when it does not; every cut's recording is its own split's.       *)
(***************************************************************************)
C6_MissingRecordingFailsTheRun ==
    /\ \A s \in SplitSet :
          ((\E r \in RowsOf(s) : ~InRecordings(s, r)) /\ BuildingOver) =>
              /\ FailsAtFirstBadRow
              /\ s \notin DOMAIN cutset_dict
    /\ CutsFromOwnSplit

C6_Witness ==
    /\ pc = "failed"
    /\ UnknownRecordingError(err)
    /\ \E r \in RowsOf(err.split) :
          /\ InChanMap(r)
          /\ ~InRecordings(err.split, r)
          /\ \E other \in SplitSet \ {err.split} : InRecordings(other, r)

(***************************************************************************)
(* C7: every cut ends within its recording and its channel index is one    *)
(* of the recording's channels.                                            *)
(***************************************************************************)
C7_CutsWithinRecording ==
    \A s \in DOMAIN cutset_dict :
        \A i \in 1..Len(cutset_dict[s]) :
            LET cut == cutset_dict[s][i]
            IN  /\ cut.start + cut.duration <= cut.recording.duration
                /\ cut.channel < cut.recording.num_channels

(***************************************************************************)
(* C8: create_manifest loads every split's two collections from the files  *)
(* and does not call prepare_icsi exactly when the manifest directory      *)
(* exists and FORCE_MANIFEST_RELOAD is false; a file that is missing or    *)
(* malformed then ends it with the load's exception and nothing is         *)
(* prepared; otherwise prepare_icsi is called and the directory written.   *)
(***************************************************************************)
C8_ManifestLoadedOrPrepared ==
    [][ pc = "manifest" =>
          IF fs[manifest_dir] = Dir /\ ~FORCE_MANIFEST_RELOAD
          THEN /\ ~prepared'
               /\ fs' = fs
               /\ IF \A s \in SplitSet :
                        /\ fs[RecordingsFile(s)].kind = "recordings"
                        /\ fs[SupervisionsFile(s)].kind = "supervisions"
                  THEN /\ pc' = "read"
                       /\ \A s \in SplitSet :
                             /\ icsi'[s].recordings = fs[RecordingsFile(s)].items
                             /\ icsi'[s].supervisions = fs[SupervisionsFile(s)].items
                  ELSE /\ pc' = "failed"
                       /\ err'.raised = "from_jsonl"
                       /\ err'.type \in {"FileNotFoundError", "JSONDecodeError"}
          ELSE /\ prepared'
               /\ pc' = "read"
               /\ fs'[manifest_dir] = Dir
               /\ \A p \in ManifestFiles : fs'[p].kind \in {"recordings", "supervisions"}
      ]_vars

C8_Witness ==
    /\ pc = "failed"
    /\ err.raised = "from_jsonl"
    /\ ~prepared
    /\ fs[manifest_dir] = Dir
    /\ \E p \in ManifestFiles : fs[p] = NoFile
    /\ \E p \in ManifestFiles : fs[p] = Malformed

(***************************************************************************)
(* C9 as stated: the run after a run that failed extracting features takes *)
(* its cuts from the pickle that run wrote.                                *)
(***************************************************************************)
C9_NextRunReusesPickle ==
    (PrevFailedExtracting /\ pc \in {"dump", "feats", "done"}) =>
        cutset_dict = prev.pickle.dict

(***************************************************************************)
(* C9 as amended: the run after a run that failed extracting features      *)
(* builds every split's cuts from the tables it reads itself, and          *)
(* overwrites the pickle with them.                                        *)
(***************************************************************************)
C9_NextRunRebuildsFromTables ==
    PrevFailedExtracting =>
        /\ \A s \in DOMAIN cutset_dict :
              /\ Len(cutset_dict[s]) = Len(dfs[s])
              /\ \A i \in 1..Len(dfs[s]) :
                    /\ cutset_dict[s][i].start = dfs[s][i].sub_start
                    /\ cutset_dict[s][i].duration = dfs[s][i].sub_duration
                    /\ cutset_dict[s][i].supervisions[1].custom.is_laugh = dfs[s][i].label
                    /\ cutset_dict[s][i].recording.id = RowMeeting(dfs[s][i])
        /\ pc \in {"feats", "done"} =>
              fs[PickleFile] = [kind |-> "pickle", dict |-> cutset_dict]

C9_Witness ==
    /\ PrevFailedExtracting
    /\ pc = "feats"
    /\ prev.pickle.kind = "pickle"
    /\ cutset_dict # prev.pickle.dict
    /\ fs[PickleFile] # prev.pickle

(***************************************************************************)
(* C10: create_dataloader with a split outside train, dev, test raises     *)
(* ValueError having read no file and built no loader; with a split inside *)
(* it reads cutset_dir/{split}_cutset_with_feats.jsonl and no other file.  *)
(***************************************************************************)
C10_DataloaderChecksSplitFirst ==
    loader.split # "none" =>
        IF loader.split \in {"train", "dev", "test"}
        THEN /\ loader.reads = {loader.dir \o <<loader.split \o "_cutset_with_feats.jsonl">>}
             /\ loader.err.type # "ValueError"
        ELSE /\ loader.err.type = "ValueError"
             /\ loader.reads = {}
             /\ ~loader.built

C10_Witness ==
    /\ loader.split = "val"
    /\ loader.err.type = "ValueError"
    /\ \E s \in SplitSet : fs[StoredCutsPath(s)].kind = "cuts"

====
